---- MODULE Spec2Model ----
(***************************************************************************)
(* Model of functions/index.js: the callable getClientAppointments.        *)
(*                                                                         *)
(* One behaviour is one invocation of the handler.  The request, the       *)
(* contents of the "clients" collection and the appointments held by the   *)
(* provider are fixed by Init; what a collaborator answers at a call       *)
(* (an exception or a value) is chosen when the handler reaches the call.  *)
(* The handler is cut at its await points; pc names the next step.         *)
(*                                                                         *)
(* JavaScript values are tagged records, so that undefined, null, "", 0    *)
(* and objects stay distinct and `||`, `?.` and `!` are computed as the    *)
(* language computes them.                                                 *)
(***************************************************************************)
EXTENDS Integers, Sequences, FiniteSets, TLC

(***************************************************************************)
(* JavaScript values                                                       *)
(***************************************************************************)
Undef == [t |-> "undefined"]
Null == [t |-> "null"]
Str(s) == [t |-> "string", s |-> s]
\* a string kept as its characters, for the code that cuts strings up
Chars(cs) == [t |-> "string", cs |-> cs]
Num(n) == [t |-> "number", n |-> n]
\* an ISO-8601 date-time string "2024-03-<d>T<h>:00+<off>:00", kept as its parts
Iso(d, h, off) == [t |-> "string", iso |-> <<d, h, off>>]
\* an array
Arr(items) == [t |-> "array", items |-> items]

\* o.f for an object o: undefined when o has no property f
Prop(o, f) == IF f \in DOMAIN o THEN o[f] ELSE Undef
\* o?.f
OptProp(o, f) == IF o.t \in {"undefined", "null"} THEN Undef ELSE Prop(o, f)

Nullish(v) == v.t \in {"undefined", "null"}

\* ToBoolean: undefined, null, "" and 0 are falsy; objects and arrays are truthy
Truthy(v) ==
    CASE v.t = "undefined" -> FALSE
      [] v.t = "null" -> FALSE
      [] v.t = "string" -> IF "cs" \in DOMAIN v THEN v.cs # <<>>
                           ELSE IF "iso" \in DOMAIN v THEN TRUE
                           ELSE v.s # ""
      [] v.t = "number" -> v.n # 0
      [] OTHER -> TRUE

\* a || b
JsOr(a, b) == IF Truthy(a) THEN a ELSE b

\* a && b
JsAnd(a, b) == IF Truthy(a) THEN b ELSE a

(***************************************************************************)
(* String operations used on the Authorization header (lines 68-69)        *)
(***************************************************************************)
Bearer == <<"B", "e", "a", "r", "e", "r", " ">>

\* String.prototype.startsWith
StartsWith(cs, p) == Len(cs) >= Len(p) /\ SubSeq(cs, 1, Len(p)) = p

\* position of the first occurrence of sep in cs, 0 when there is none
IndexOf(cs, sep) ==
    LET hits == {i \in 1..(Len(cs) - Len(sep) + 1) : SubSeq(cs, i, i + Len(sep) - 1) = sep}
    IN IF hits = {} THEN 0 ELSE CHOOSE i \in hits : \A j \in hits : i <= j

\* String.prototype.split with a non-empty separator: the array of pieces
RECURSIVE Split(_, _)
Split(cs, sep) ==
    LET i == IndexOf(cs, sep)
    IN IF i = 0 THEN <<cs>>
       ELSE <<SubSeq(cs, 1, i - 1)>> \o Split(SubSeq(cs, i + Len(sep), Len(cs)), sep)

\* String.prototype.trim (the only white space in the model is " ")
RECURSIVE Trim(_)
Trim(cs) ==
    IF cs = <<>> THEN cs
    ELSE IF Head(cs) = " " THEN Trim(Tail(cs))
    ELSE IF cs[Len(cs)] = " " THEN Trim(SubSeq(cs, 1, Len(cs) - 1))
    ELSE cs

(***************************************************************************)
(* Errors and results                                                      *)
(***************************************************************************)
HttpsError(code, message) == [kind |-> "HttpsError", code |-> code, message |-> message]
\* an exception that is not an HttpsError (TypeError, a store or network failure)
RawError(message) == [kind |-> "Error", message |-> message]
Return(appointments) == [kind |-> "return", appointments |-> appointments]
Pending == [kind |-> "pending"]
\* what a collaborator's call produced when it threw or rejected
Thrown == [t |-> "throw"]

(***************************************************************************)
(* The inputs of one invocation                                            *)
(***************************************************************************)
\* request.auth: absent, or an object with uid, email and auth properties
\* (a property the request does not carry is undefined)
AuthData(uid, email, auth) == [t |-> "object", uid |-> uid, email |-> email, auth |-> auth]
AuthValues ==
    {Undef, AuthData(Str(""), Undef, Undef)}
    \cup {AuthData(Str("u1"), e, a) :
            e \in {Undef, Str("e1")}, a \in {Undef, [t |-> "object", uid |-> Str("u1")]}}

\* request.rawRequest: absent, or an object whose headers object has the
\* properties authorization and Authorization
Headers(lower, upper) ==
    [t |-> "object", headers |-> [t |-> "object", authorization |-> lower, Authorization |-> upper]]
HeaderStrings ==
    { <<"B", "a", "s", "i", "c", " ", "g">>,
      Bearer,
      Bearer \o <<"g">>,
      Bearer \o <<"b">>,
      Bearer \o <<" ", "g", " ">>,
      <<"b", "e", "a", "r", "e", "r", " ", "g">>,
      Bearer \o Bearer \o <<"g">> }
RawRequestValues ==
    {Undef, [t |-> "object", headers |-> Undef]}
    \cup {Headers(Chars(h), Undef) : h \in HeaderStrings}
    \cup {Headers(Undef, Undef), Headers(Arr(<<>>), Undef), Headers(Undef, Chars(Bearer \o <<"g">>))}

\* request.data: an object with optional uid and patientId
DataValues ==
    {[t |-> "object", uid |-> u, patientId |-> p] :
        u \in {Undef, Str("u1")}, p \in {Undef, Str(""), Str("p9")}}

Requests ==
    {[auth |-> a, rawRequest |-> r, data |-> d] :
        a \in AuthValues, r \in RawRequestValues, d \in DataValues}

\* the tokens the identity provider accepts, and the uid each belongs to
ValidTokens == {<<"g">>}
TokenUid(tok) == Str("u1")

\* the "clients" collection: a document or none under each id, in id order
DocIds == <<"u1", "x1", "x2">>
NoDoc == [t |-> "nodoc"]
Doc(email, pid) == [t |-> "doc", email |-> email, splosePatientId |-> pid]
ClientStores ==
    {[id \in {"u1", "x1", "x2"} |->
        CASE id = "u1" -> a [] id = "x1" -> b [] OTHER -> c] :
        a \in {NoDoc, Doc(Undef, Undef), Doc(Str("e1"), Undef), Doc(Str("e1"), Str("p1"))},
        b \in {NoDoc} \cup {Doc(e, p) : e \in {Str("e1"), Str("e2")}, p \in {Undef, Str("p2")}},
        c \in {NoDoc, Doc(Str("e1"), Undef), Doc(Str("e1"), Str("p3"))}}

\* values of the secret SPLOSE_API_KEY
SecretValues == {Undef, Str(""), Str("k")}

(***************************************************************************)
(* Identity resolution (lines 59-85)                                       *)
(***************************************************************************)
\* the uid of the payload standing in for a missing verified uid
ContextUidOrDataUid(req) ==
    JsOr(JsOr(OptProp(req.auth, "uid"), Prop(req.data, "uid")), Null)

\* line 59: context?.uid || null
ContextUid(req) == JsOr(OptProp(req.auth, "uid"), Null)

\* lines 64-66: the Authorization header of the raw request
AuthHeader(req) ==
    LET rawReq == req.rawRequest
        headers == JsAnd(rawReq, Prop(rawReq, "headers"))
    IN JsAnd(headers, JsOr(Prop(headers, "authorization"), Prop(headers, "Authorization")))

\* lines 68-70: the token of a "Bearer " header, undefined when the header is
\* no such string or the token is empty
IdToken(req) ==
    LET authHeader == AuthHeader(req)
    IN IF Truthy(authHeader) /\ authHeader.t = "string" /\ StartsWith(authHeader.cs, Bearer)
       THEN LET idToken == Trim(Split(authHeader.cs, Bearer)[2])
            IN IF idToken # <<>> THEN Chars(idToken) ELSE Undef
       ELSE Undef

\* admin.auth().verifyIdToken: the decoded token, or a rejection (an invalid
\* token, or the service failing)
VerifyOutcomes(idToken) ==
    IF idToken.cs \in ValidTokens
    THEN {[t |-> "object", uid |-> TokenUid(idToken.cs)], Thrown}
    ELSE {Thrown}

\* lines 73-79: the uid adopted from the outcome of the verification
VerifiedUid(old, verified) ==
    IF verified # Thrown /\ Truthy(JsAnd(verified, Prop(verified, "uid")))
    THEN verified.uid
    ELSE old

(***************************************************************************)
(* Patient-id lookup (lines 99-124)                                        *)
(***************************************************************************)
\* line 99: data.patientId || null
SuppliedPatientId(req) == JsOr(Prop(req.data, "patientId"), Null)

\* db.collection("clients").doc(uid).get(): the snapshot, or a rejection
DocGetOutcomes(store, id) ==
    {Thrown, IF id.s \in DOMAIN store THEN store[id.s] ELSE NoDoc}

\* lines 106-107: userDoc.get("splosePatientId") || null
DocPatientId(doc) == JsOr(Prop(doc, "splosePatientId"), Null)

\* the documents whose email field equals the queried value, in id order;
\* no document's field equals undefined
RECURSIVE MatchesFrom(_, _, _)
MatchesFrom(store, email, i) ==
    IF i > Len(DocIds) THEN <<>>
    ELSE LET d == store[DocIds[i]]
             rest == MatchesFrom(store, email, i + 1)
         IN IF d # NoDoc /\ email.t = "string" /\ d.email = email THEN <<d>> \o rest ELSE rest

\* lines 112-115: .where("email", "==", email).limit(1).get(): the snapshot's
\* docs, or a rejection
EmailQueryOutcomes(store, email) ==
    LET all == MatchesFrom(store, email, 1)
    IN {Thrown, [t |-> "snap", docs |-> SubSeq(all, 1, IF Len(all) < 1 THEN Len(all) ELSE 1)]}

\* lines 116-122: the patient id taken from the query snapshot
SnapPatientId(old, snap) ==
    IF snap.docs # <<>> THEN DocPatientId(snap.docs[1]) ELSE old

(***************************************************************************)
(* Normalisation (lines 172-202)                                           *)
(***************************************************************************)
EmptyObj == [t |-> "object"]

\* a[0] for an array a
First(a) == IF a.items = <<>> THEN Undef ELSE a.items[1]

\* line 175: (appt.appointmentPatients || [])[0] || {}
FirstPatient(appt) == JsOr(First(JsOr(Prop(appt, "appointmentPatients"), Arr(<<>>))), EmptyObj)

\* lines 176-190: the normalised record of one raw appointment
Normalize(appt) ==
    LET firstPatient == FirstPatient(appt)
    IN [t |-> "object",
        id |-> Prop(appt, "id"),
        start |-> Prop(appt, "start"),
        end |-> Prop(appt, "end"),
        isUnavailableBlock |-> Prop(appt, "isUnavailableBlock"),
        pricing |-> Prop(appt, "pricing"),
        total |-> Prop(appt, "total"),
        status |-> JsOr(Prop(firstPatient, "status"), Null),
        cancellationReason |-> JsOr(Prop(firstPatient, "cancellationReason"), Null),
        cancellationRate |-> JsOr(Prop(firstPatient, "cancellationRate"), Null),
        note |-> JsOr(Prop(appt, "note"), Str("")),
        location |-> JsOr(Prop(appt, "location"), Null),
        practitioner |-> JsOr(Prop(appt, "practitioner"), Null)]

\* line 174: rawAppointments.map(...)
Map(raw) == [i \in 1..Len(raw) |-> Normalize(raw[i])]

\* new Date(s).getTime() for an ISO-8601 string with a zone offset, in hours
\* since the start of the month: the local time moved back by the offset
ParseDate(s) == (s.iso[1] * 24 + s.iso[2]) - s.iso[3]

\* the comparator with the offsets of the time zones ignored
CompareLocal(a, b) == (a.start.iso[1] * 24 + a.start.iso[2]) - (b.start.iso[1] * 24 + b.start.iso[2])

\* line 200: the comparator (a, b) => new Date(a.start) - new Date(b.start)
Compare(a, b) == ParseDate(a.start) - ParseDate(b.start)

\* Array.prototype.sort: a stable sort, computed as the insertion sort
\* that puts each element after the elements it does not precede
RECURSIVE Insert(_, _)
Insert(sorted, x) ==
    IF sorted = <<>> THEN <<x>>
    ELSE LET last == sorted[Len(sorted)]
         IN IF Compare(last, x) > 0
            THEN Insert(SubSeq(sorted, 1, Len(sorted) - 1), x) \o <<last>>
            ELSE sorted \o <<x>>

RECURSIVE SortFrom(_, _, _)
SortFrom(sorted, list, i) ==
    IF i > Len(list) THEN sorted ELSE SortFrom(Insert(sorted, list[i]), list, i + 1)

Sort(list) == SortFrom(<<>>, list, 1)

\* lines 194-198: evaluating context.auth.uid for the log line throws a
\* TypeError when context or context.auth is undefined or null
LogThrows(req) == Nullish(req.auth) \/ Nullish(Prop(req.auth, "auth"))

\* line 172: Array.isArray(json.data) ? json.data : []
RawAppointments(json) ==
    IF Prop(json, "data").t = "array" THEN json.data.items ELSE <<>>

\* lines 204-209: whatever is thrown inside the try block leaves as this error
Catch(err) == HttpsError("internal", "Unexpected error fetching appointments.")

\* only a server error counted as a failed response
ResponseOkBelow500(response) == response.status < 500

\* line 160: response.ok
ResponseOk(response) == response.ok

\* only an undefined secret counted as missing
TokenUndefined(token) == token.t = "undefined"

\* line 134: !token
TokenMissing(token) == ~Truthy(token)

\* only an undefined patient id counted as missing
PatientIdUndefined(pid) == pid.t = "undefined"

\* line 126: !splosePatientId
PatientIdMissing(pid) == ~Truthy(pid)

(***************************************************************************)
(* The provider's appointments                                             *)
(***************************************************************************)
MaxAppts == 3

Patient(status, reason, rate) ==
    [t |-> "object", status |-> status, cancellationReason |-> reason, cancellationRate |-> rate]
OtherPatient == Patient(Str("cancelled"), Str("late"), Num(100))
Patients ==
    {Patient(s, r, c) :
        s \in {Undef, Str(""), Str("booked")}, r \in {Undef, Null, Str("sick")},
        c \in {Undef, Num(0), Num(50)}}
PatientLists ==
    {Undef, Arr(<<>>), Arr(<<Null, OtherPatient>>)}
    \cup {Arr(<<p>>) : p \in Patients} \cup {Arr(<<p, OtherPatient>>) : p \in Patients}

\* a raw appointment; id is its position in the provider's answer
RawAppt(id, start, patients, note, place) ==
    [t |-> "object", id |-> Num(id), start |-> start, end |-> Iso(3, 0, 0),
     isUnavailableBlock |-> [t |-> "boolean", b |-> FALSE], pricing |-> Num(90), total |-> Num(90),
     appointmentPatients |-> patients, note |-> note, location |-> place, practitioner |-> place]

\* 09:00Z and 10:00+01:00 on the 1st are one instant; 10:00Z on the 1st is
\* later; 08:00Z on the 2nd is the latest
Starts == {Iso(1, 9, 0), Iso(1, 10, 1), Iso(1, 10, 0), Iso(2, 8, 0)}

\* answers that differ in the order of the start timestamps
StartLists ==
    UNION {{[i \in 1..n |-> RawAppt(i, f[i], Arr(<<OtherPatient>>), Undef, Undef)] :
                f \in [1..n -> Starts]} : n \in 0..MaxAppts}
\* answers of one appointment that differ in everything else
PatientAnswers ==
    {<<RawAppt(1, Iso(1, 9, 0), ps, n, Undef)>> : ps \in PatientLists, n \in {Undef, Str("bring x-rays")}}
    \cup {<<RawAppt(1, Iso(1, 9, 0), Undef, Undef, [t |-> "object", name |-> Str("Clinic")])>>}

\* the answers of the whole-handler specification
FewAnswers ==
    {<<>>,
     <<RawAppt(1, Iso(2, 8, 0), Arr(<<OtherPatient>>), Undef, Undef),
       RawAppt(2, Iso(1, 9, 0), Arr(<<>>), Undef, Undef)>>}

\* fetch(url, ...): a rejection (transport failure), a 2xx response whose
\* body is the list, has no data list or is not JSON, or a non-2xx response
\* whose body is an error object or is not JSON
Response(ok, status, text, json) ==
    [t |-> "response", ok |-> ok, status |-> status, text |-> text, json |-> json]
FetchOutcomes(list) ==
    {Thrown,
     Response(TRUE, 200, Str("{data:[..]}"), [t |-> "object", data |-> Arr(list)]),
     Response(TRUE, 200, Str("{}"), [t |-> "object", data |-> Undef]),
     Response(TRUE, 200, Str("<html>"), Thrown),
     Response(FALSE, 401, Str("{error:bad key}"), [t |-> "object", error |-> Str("bad key")]),
     Response(FALSE, 500, Str("upstream stack trace"), Thrown)}

\* String(v) for the values a patient id takes
JsString(v) == IF v.t = "string" THEN v ELSE Str(v.t)

(***************************************************************************)
(* State                                                                   *)
(***************************************************************************)
VARIABLES
    request,          \* the request of this invocation
    clients,          \* the "clients" collection
    provider,         \* the appointments the provider holds for the patient
    pc,               \* the step the handler is at
    uid,              \* let uid (line 59)
    splosePatientId,  \* let splosePatientId (line 99)
    token,            \* const token (line 133)
    response,         \* const response (line 152)
    result,           \* what the invocation returned or threw
    calls             \* the calls made to collaborators, with their outcomes

vars == <<request, clients, provider, pc, uid, splosePatientId, token, response, result, calls>>

Call(op, arg, out) == [op |-> op, arg |-> arg, out |-> out]

Init ==
    /\ request \in Requests
    /\ clients \in ClientStores
    /\ provider \in FewAnswers
    /\ pc = "start"
    /\ uid = Undef
    /\ splosePatientId = Undef
    /\ token = Undef
    /\ response = Undef
    /\ result = Pending
    /\ calls = <<>>

\* lines 35-70: up to the call of verifyIdToken, or to the check of uid
Start ==
    /\ pc = "start"
    /\ uid' = ContextUid(request)
    /\ pc' = IF ~Truthy(uid') /\ Truthy(IdToken(request)) THEN "verifyIdToken" ELSE "checkUid"
    /\ UNCHANGED <<request, clients, provider, splosePatientId, token, response, result, calls>>

\* lines 71-85: the token is verified; a rejection is logged and swallowed
VerifyIdToken ==
    /\ pc = "verifyIdToken"
    /\ \E verified \in VerifyOutcomes(IdToken(request)) :
        /\ calls' = Append(calls, Call("verifyIdToken", IdToken(request), verified))
        /\ uid' = VerifiedUid(uid, verified)
    /\ pc' = "checkUid"
    /\ UNCHANGED <<request, clients, provider, splosePatientId, token, response, result>>

\* lines 88-101: no uid is an error; otherwise the supplied patient id is taken
CheckUid ==
    /\ pc = "checkUid"
    /\ IF ~Truthy(uid)
       THEN /\ result' = HttpsError("unauthenticated", "You must be logged in to view appointments.")
            /\ pc' = "done"
            /\ UNCHANGED splosePatientId
       ELSE /\ splosePatientId' = SuppliedPatientId(request)
            /\ pc' = IF ~Truthy(splosePatientId') THEN "docGet" ELSE "checkPatientId"
            /\ UNCHANGED result
    /\ UNCHANGED <<request, clients, provider, uid, token, response, calls>>

\* lines 103-111: the read of clients/{uid}; its rejection is not caught
DocGet ==
    /\ pc = "docGet"
    /\ \E userDoc \in DocGetOutcomes(clients, uid) :
        /\ calls' = Append(calls, Call("clients.doc.get", uid, userDoc))
        /\ IF userDoc = Thrown
           THEN /\ result' = RawError("clients.doc.get rejected")
                /\ pc' = "done"
                /\ UNCHANGED splosePatientId
           ELSE IF userDoc # NoDoc
           THEN /\ splosePatientId' = DocPatientId(userDoc)
                /\ pc' = "checkPatientId"
                /\ UNCHANGED result
           ELSE /\ pc' = "emailQuery"
                /\ UNCHANGED <<splosePatientId, result>>
    /\ UNCHANGED <<request, clients, provider, uid, token, response>>

\* lines 112-123: the query by context?.email; its rejection is not caught
EmailQuery ==
    /\ pc = "emailQuery"
    /\ LET email == OptProp(request.auth, "email")
       IN \E snap \in EmailQueryOutcomes(clients, email) :
            /\ calls' = Append(calls, Call("clients.where.email.get", email, snap))
            /\ IF snap = Thrown
               THEN /\ result' = RawError("clients.where.get rejected")
                    /\ pc' = "done"
                    /\ UNCHANGED splosePatientId
               ELSE /\ splosePatientId' = SnapPatientId(splosePatientId, snap)
                    /\ pc' = "checkPatientId"
                    /\ UNCHANGED result
    /\ UNCHANGED <<request, clients, provider, uid, token, response>>

\* lines 126-149: no patient id is an error; then the secret is read, and an
\* empty one is an error
CheckPatientId ==
    /\ pc = "checkPatientId"
    /\ IF PatientIdMissing(splosePatientId)
       THEN /\ result' = HttpsError("failed-precondition", "No Splose patientId is configured for this user.")
            /\ pc' = "done"
            /\ UNCHANGED <<token, calls>>
       ELSE \E value \in SecretValues :
            /\ token' = value
            /\ calls' = Append(calls, Call("sploseApiKey.value", Undef, value))
            /\ IF TokenMissing(value)
               THEN /\ result' = HttpsError("internal", "Splose API key is not configured.")
                    /\ pc' = "done"
               ELSE /\ pc' = "fetch"
                    /\ UNCHANGED result
    /\ UNCHANGED <<request, clients, provider, uid, splosePatientId, response>>

\* lines 151-160: the GET; a rejection is caught at line 204
Fetch ==
    /\ pc = "fetch"
    /\ \E r \in FetchOutcomes(provider) :
        /\ calls' = Append(calls,
                Call("fetch",
                     [patientId |-> JsString(splosePatientId), start_gt |-> "now",
                      include_archived |-> "false", authorization |-> token],
                     r))
        /\ IF r = Thrown
           THEN /\ result' = Catch(RawError("fetch failed"))
                /\ pc' = "done"
                /\ UNCHANGED response
           ELSE /\ response' = r
                /\ pc' = IF ResponseOk(r) THEN "json" ELSE "text"
                /\ UNCHANGED result
    /\ UNCHANGED <<request, clients, provider, uid, splosePatientId, token>>

\* lines 161-167, 204-209: the error body is read and logged; the error
\* thrown at line 163 (or the rejection of text()) is caught at line 204
ReadText ==
    /\ pc = "text"
    /\ \E text \in {Thrown, response.text} :
        /\ calls' = Append(calls, Call("response.text", Undef, text))
        /\ result' = Catch(IF text = Thrown
                           THEN RawError("text() rejected")
                           ELSE HttpsError("internal", "Error fetching appointments from Splose."))
    /\ pc' = "done"
    /\ UNCHANGED <<request, clients, provider, uid, splosePatientId, token, response>>

\* lines 169-210: the body is parsed, mapped, logged, sorted and returned;
\* anything thrown on the way is caught at line 204
ReadJson ==
    /\ pc = "json"
    /\ LET json == response.json
       IN /\ calls' = Append(calls, Call("response.json", Undef, json))
          /\ IF json = Thrown
             THEN result' = Catch(RawError("SyntaxError"))
             ELSE LET appointments == Map(RawAppointments(json))
                  IN IF LogThrows(request)
                     THEN result' = Catch(RawError("TypeError: Cannot read properties of undefined"))
                     ELSE result' = Return(Sort(appointments))
    /\ pc' = "done"
    /\ UNCHANGED <<request, clients, provider, uid, splosePatientId, token, response>>

Next ==
    \/ Start
    \/ VerifyIdToken
    \/ CheckUid
    \/ DocGet
    \/ EmailQuery
    \/ CheckPatientId
    \/ Fetch
    \/ ReadText
    \/ ReadJson

Spec == Init /\ [][Next]_vars

(***************************************************************************)
(* The fetch and normalisation stage on its own: the handler has resolved  *)
(* uid u1 and the supplied patient id p9 and has read the secret; the      *)
(* provider's answer ranges over many lists.                               *)
(***************************************************************************)
InitNorm ==
    /\ request \in {[auth |-> AuthData(Str("u1"), Str("e1"), a), rawRequest |-> Undef,
                     data |-> [t |-> "object", uid |-> Undef, patientId |-> Str("p9")]] :
                        a \in {Undef, [t |-> "object", uid |-> Str("u1")]}}
    /\ clients \in {s \in ClientStores : \A id \in DOMAIN s : s[id] = NoDoc}
    /\ provider \in StartLists \cup PatientAnswers
    /\ pc = "fetch"
    /\ uid = Str("u1")
    /\ splosePatientId = Str("p9")
    /\ token = Str("k")
    /\ response = Undef
    /\ result = Pending
    /\ calls = <<Call("sploseApiKey.value", Undef, Str("k"))>>

NextNorm ==
    \/ Fetch
    \/ ReadText
    \/ ReadJson

SpecNorm == InitNorm /\ [][NextNorm]_vars

(***************************************************************************)
(* Properties                                                              *)
(***************************************************************************)
Made(op) == \E i \in 1..Len(calls) : calls[i].op = op
Answered(op, out) == \E i \in 1..Len(calls) : calls[i].op = op /\ calls[i].out = out
Rejected(op) == Answered(op, Thrown)
StoreOps == {"clients.doc.get", "clients.where.email.get"}
Classifications == {"unauthenticated", "failed-precondition", "internal"}
Failed(code) == result.kind = "HttpsError" /\ result.code = code

\* every collaborator succeeded: a verified uid, a patient id, a non-empty
\* credential and a 2xx answer with a data list
AllSucceeded ==
    /\ Truthy(uid)
    /\ Truthy(splosePatientId)
    /\ Truthy(token)
    /\ response # Undef
    /\ response.ok
    /\ response.json # Thrown
    /\ Prop(response.json, "data").t = "array"

\* C1: an invocation in which every collaborator succeeded ends by returning
\* { appointments }, never in an error
C1_SuccessReturns ==
    (pc = "done" /\ AllSucceeded) => result.kind = "return"

\* the request carries no trusted uid and no bearer token that was accepted
NoVerifiedIdentity ==
    /\ ~Truthy(OptProp(request.auth, "uid"))
    /\ ~\E i \in 1..Len(calls) :
            /\ calls[i].op = "verifyIdToken"
            /\ calls[i].out # Thrown
            /\ Truthy(Prop(calls[i].out, "uid"))

KnownEmail == OptProp(request.auth, "email")

\* the store holds no record under the uid and none with the caller's email
NoLookupRecord ==
    /\ clients[uid.s] = NoDoc
    /\ \A id \in DOMAIN clients :
        clients[id] # NoDoc => ~(Truthy(KnownEmail) /\ clients[id].email = KnownEmail)

EmailMatches == MatchesFrom(clients, KnownEmail, 1)

\* C4: with no patientId supplied, a primary lookup that gives no record or
\* a record without identifier, a known email and a first email match that
\* carries an identifier, the resolved patient id is that identifier
C4_EmailFallback ==
    (/\ pc = "checkPatientId"
     /\ ~Truthy(request.data.patientId)
     /\ (clients[uid.s] = NoDoc \/ ~Truthy(clients[uid.s].splosePatientId))
     /\ Truthy(KnownEmail)
     /\ EmailMatches # <<>>
     /\ Truthy(EmailMatches[1].splosePatientId))
    => splosePatientId = EmailMatches[1].splosePatientId

\* C5: an invocation that fails ends with an HttpsError of one of the three
\* classifications
C5_Classified ==
    (pc = "done" /\ result.kind # "return") =>
        (result.kind = "HttpsError" /\ result.code \in Classifications)

\* C6: after a non-2xx answer the invocation ends with internal, returns no
\* appointments, and the error's message is not the provider's error body
C6_NonOkInternal ==
    (pc = "done" /\ response # Undef /\ ~response.ok) =>
        /\ Failed("internal")
        /\ "appointments" \notin DOMAIN result
        /\ result.message # response.text.s

C6_Witness ==
    /\ pc = "done"
    /\ response # Undef
    /\ ~response.ok
    /\ Answered("response.text", response.text)
    /\ Failed("internal")

\* the secret was read and was undefined or empty
CredentialMissing ==
    \E i \in 1..Len(calls) : calls[i].op = "sploseApiKey.value" /\ ~Truthy(calls[i].out)

\* C7: once the secret is read as missing or empty the invocation has ended
\* with internal and has made no call to the appointments API
C7_NoCredentialNoFetch ==
    CredentialMissing => (pc = "done" /\ Failed("internal") /\ ~Made("fetch"))

C7_Witness ==
    /\ CredentialMissing
    /\ Truthy(uid)
    /\ Truthy(splosePatientId)
    /\ token = Str("")
    /\ Failed("internal")
    /\ ~Made("fetch")

\* C8: every email query sent to the store carries a known email
C8_EmailQueryOnlyWithEmail ==
    \A i \in 1..Len(calls) :
        calls[i].op = "clients.where.email.get" => Truthy(calls[i].arg)

\* the list the provider answered with
Raw == response.json.data.items
Returned == pc = "done" /\ result.kind = "return" /\ Prop(response.json, "data").t = "array"

\* C9: the returned list has one entry per raw appointment, is ascending in
\* the instant of start, and entries of one instant keep the provider's order
C9_SortedStable ==
    Returned =>
        LET out == result.appointments
        IN /\ Len(out) = Len(Raw)
           /\ {out[k].id.n : k \in 1..Len(out)} = 1..Len(Raw)
           /\ \A k \in 1..Len(out) : out[k].start = Raw[out[k].id.n].start
           /\ \A k \in 1..Len(out), l \in 1..Len(out) :
                k < l =>
                    \/ ParseDate(out[k].start) < ParseDate(out[l].start)
                    \/ /\ ParseDate(out[k].start) = ParseDate(out[l].start)
                       /\ out[k].id.n < out[l].id.n

\* a returned list of three that the sort had to reorder and that holds two
\* entries of one instant written in different zones
C9_Witness ==
    /\ Returned
    /\ Len(result.appointments) = 3
    /\ result.appointments[1].id.n # 1
    /\ \E k \in 1..2 :
        /\ result.appointments[k].start # result.appointments[k + 1].start
        /\ ParseDate(result.appointments[k].start) = ParseDate(result.appointments[k + 1].start)

PatientFields == {"status", "cancellationReason", "cancellationRate"}

\* C10: each of status, cancellationReason and cancellationRate equals the
\* field of the first entry of appointmentPatients when the list is not
\* empty and the field is present, and is null otherwise
C10_FirstPatientFields ==
    Returned =>
        \A k \in 1..Len(result.appointments) :
            LET out == result.appointments[k]
                patients == Prop(Raw[out.id.n], "appointmentPatients")
                present(f) ==
                    /\ patients.t = "array"
                    /\ patients.items # <<>>
                    /\ patients.items[1].t = "object"
                    /\ Prop(patients.items[1], f) # Undef
            IN \A f \in PatientFields :
                out[f] = IF present(f) THEN patients.items[1][f] ELSE Null

====
